---- MODULE Spec2Model ----
(***************************************************************************)
(* Ethiopian <-> Gregorian date conversion through the Julian Day Number,  *)
(* as implemented in core/ethiopian_date.py (tuple functions) and          *)
(* core/calendar.py (EthDate / GregDate objects and the year generator).   *)
(*                                                                         *)
(* Every run draws one input in Init and then applies conversion           *)
(* functions to it, one call per step.  Python's // and % are floor        *)
(* division and its non-negative remainder for a positive divisor, which   *)
(* is what \div and % are here; Python integers are unbounded.             *)
(***************************************************************************)
EXTENDS Integers, Sequences, FiniteSets, TLC

----------------------------------------------------------------------------
(* Program constants *)

ETHIOPIAN_EPOCH == 1723856

_ETHIOPIAN_EPOCH == 1724220

OrdinalToJdn == 1721425

----------------------------------------------------------------------------
(* core/ethiopian_date.py *)

_is_ethiopian_leap_year(year) == (year + 1) % 4 = 0

_ethiopian_to_jdn(year, month, day) ==
    ETHIOPIAN_EPOCH + 365 * (year - 1) + ((year - 1) \div 4)
        + 30 * (month - 1) + day

\* _jdn_to_ethiopian with the leap-day term left out of the year.
_jdn_to_ethiopian_raw_noleapterm(jdn) ==
    LET r == (jdn - ETHIOPIAN_EPOCH) % 1461
        n == (r % 365) + 365 * (r \div 1460)
        year == 4 * ((jdn - ETHIOPIAN_EPOCH) \div 1461) + (r \div 365)
        month == n \div 30 + 1
        day == (n % 30) + 1
    IN  <<year, month, day>>

\* The (year, month, day) computed by lines 60-64, before the `month > 13`
\* correction of lines 67-72 is applied.
_jdn_to_ethiopian_raw(jdn) ==
    LET r == (jdn - ETHIOPIAN_EPOCH) % 1461
        n == (r % 365) + 365 * (r \div 1460)
        year == 4 * ((jdn - ETHIOPIAN_EPOCH) \div 1461) + (r \div 365) - (r \div 1460)
        month == n \div 30 + 1
        day == (n % 30) + 1
    IN  <<year, month, day>>

_jdn_to_ethiopian(jdn) ==
    LET raw == _jdn_to_ethiopian_raw(jdn)
        year == raw[1]
        day13 == raw[3] + 5
    IN  IF raw[2] > 13
        THEN <<year, 13,
               IF ~_is_ethiopian_leap_year(year) /\ day13 > 5 THEN 5 ELSE day13>>
        ELSE raw

\* _gregorian_to_jdn with the rounding term of the month offset left out.
_gregorian_to_jdn_norounding(year, month, day) ==
    LET a == (14 - month) \div 12
        y == year + 4800 - a
        m == month + 12 * a - 3
    IN  day + ((153 * m) \div 5) + 365 * y + (y \div 4) - (y \div 100)
            + (y \div 400) - 32045

_gregorian_to_jdn(year, month, day) ==
    LET a == (14 - month) \div 12
        y == year + 4800 - a
        m == month + 12 * a - 3
    IN  day + ((153 * m + 2) \div 5) + 365 * y + (y \div 4) - (y \div 100)
            + (y \div 400) - 32045

_jdn_to_gregorian(jdn) ==
    LET a == jdn + 32044
        b == (4 * a + 3) \div 146097
        c == a - (146097 * b) \div 4
        d == (4 * c + 3) \div 1461
        e == c - (1461 * d) \div 4
        m == (5 * e + 2) \div 153
        day == e - (153 * m + 2) \div 5 + 1
        month == m + 3 - 12 * (m \div 10)
        year == 100 * b + d - 4800 + (m \div 10)
    IN  <<year, month, day>>

to_gregorian(year, month, day) ==
    _jdn_to_gregorian(_ethiopian_to_jdn(year, month, day))

to_ethiopian(year, month, day) ==
    _jdn_to_ethiopian(_gregorian_to_jdn(year, month, day))

----------------------------------------------------------------------------
(* datetime.date, as core/calendar.py uses it: the proleptic Gregorian      *)
(* ordinal (1 January of year 1 is day 1) and its inverse.                  *)

PyIsLeap(year) ==
    year % 4 = 0 /\ (year % 100 # 0 \/ year % 400 = 0)

PyDaysInMonth(year, month) ==
    IF month = 2 THEN (IF PyIsLeap(year) THEN 29 ELSE 28)
    ELSE IF month \in {4, 6, 9, 11} THEN 30 ELSE 31

PyDaysBeforeMonth(year, month) ==
    <<0, 31, 59, 90, 120, 151, 181, 212, 243, 273, 304, 334>>[month]
        + (IF month > 2 /\ PyIsLeap(year) THEN 1 ELSE 0)

\* PyDate(year, month, day) raises ValueError unless this holds.
PyDateValid(year, month, day) ==
    /\ year \in 1..9999
    /\ month \in 1..12
    /\ day >= 1 /\ day <= PyDaysInMonth(year, month)

toordinal(year, month, day) ==
    LET y == year - 1
    IN  y * 365 + (y \div 4) - (y \div 100) + (y \div 400)
            + PyDaysBeforeMonth(year, month) + day

fromordinal(ordinal) ==
    LET n0 == ordinal - 1
        n400 == n0 \div 146097
        n1_ == n0 % 146097
        n100 == n1_ \div 36524
        n2_ == n1_ % 36524
        n4 == n2_ \div 1461
        n3_ == n2_ % 1461
        n1 == n3_ \div 365
        n == n3_ % 365
        year == n400 * 400 + 1 + n100 * 100 + n4 * 4 + n1
        guess == (n + 50) \div 32
        before == PyDaysBeforeMonth(year, guess)
        month == IF before > n THEN guess - 1 ELSE guess
    IN  IF n1 = 4 \/ n100 = 4
        THEN <<year - 1, 12, 31>>
        ELSE <<year, month, n - PyDaysBeforeMonth(year, month) + 1>>

----------------------------------------------------------------------------
(* core/calendar.py *)

\* The two `raise ValueError` guards of _eth_to_jdn.
_eth_to_jdn_raises(year, month, day) ==
    \/ ~(1 <= month /\ month <= 13 /\ 1 <= day /\ day <= 30)
    \/ (month = 13 /\ day > 6)

_eth_to_jdn(year, month, day) ==
    _ETHIOPIAN_EPOCH + 365 * (year - 1) + (year \div 4) + 30 * (month - 1)
        + day - 1

_jdn_to_eth(jdn) ==
    LET r == (jdn - _ETHIOPIAN_EPOCH) % 1461
        n == (r % 365) + 365 * (r \div 1460)
        year == 4 * ((jdn - _ETHIOPIAN_EPOCH) \div 1461) + (r \div 365) - (r \div 1460)
        month == n \div 30 + 1
        day == (n % 30) + 1
    IN  <<year, month, day>>

_greg_to_jdn(year, month, day) == toordinal(year, month, day) + OrdinalToJdn

_jdn_to_greg(jdn) == fromordinal(jdn - OrdinalToJdn)

\* EthDate.to_gregorian, for a date _eth_to_jdn accepts.
EthDate_to_gregorian(year, month, day) ==
    _jdn_to_greg(_eth_to_jdn(year, month, day))

GregDate_to_ethiopian(year, month, day) ==
    _jdn_to_eth(_greg_to_jdn(year, month, day))

\* py_date += timedelta(days=1)
PyDatePlusOneDay(pd) == fromordinal(toordinal(pd[1], pd[2], pd[3]) + 1)

----------------------------------------------------------------------------
(* Inputs *)

MaxEthYear == 8
MaxPairYear == 5
MaxGregSpan == 8
MaxJdnOffset == 5844
MaxCentury == 5
YearWindow == 1
MaxGenYear == 40

\* The literal scenario of tests/test_dates.py and main.py.
Meskerem1_2016 == <<2016, 1, 1>>
Sep11_2023 == <<2023, 9, 11>>

\* A valid Ethiopian date: twelve months of 30 days, then Pagume of 5 days,
\* or 6 in a leap year.
EthValid(year, month, day) ==
    /\ year >= 1
    /\ month \in 1..13
    /\ day >= 1
    /\ day <= (IF month <= 12 THEN 30
               ELSE IF _is_ethiopian_leap_year(year) THEN 6 ELSE 5)

\* Lexicographic (year, month, day) order, for both calendars.
DateBefore(d1, d2) ==
    \/ d1[1] < d2[1]
    \/ (d1[1] = d2[1] /\ d1[2] < d2[2])
    \/ (d1[1] = d2[1] /\ d1[2] = d2[2] /\ d1[3] < d2[3])

EthYears ==
    (1..MaxEthYear)
        \cup ((Meskerem1_2016[1] - YearWindow)..(Meskerem1_2016[1] + YearWindow))

\* Ethiopian triples handed to the converters, invalid ones (month 14,
\* day 31, a 6th Pagume day in a common year) included.
EthInputs == {<<y, m, d>> : y \in EthYears, m \in 1..14, d \in 1..31}

\* Century years, leap (1600, 2000) and common.
CenturyYears == {1600 + 100 * k : k \in 0..MaxCentury}

GregYears ==
    (7..(7 + MaxGregSpan))
        \cup ((Sep11_2023[1] - YearWindow)..(Sep11_2023[1] + YearWindow))
        \cup CenturyYears

\* Valid proleptic Gregorian dates on or after the Ethiopian epoch.
GregInputs ==
    {g \in {<<y, m, d>> : y \in GregYears, m \in 1..12, d \in 1..31} :
        /\ PyDateValid(g[1], g[2], g[3])
        /\ toordinal(g[1], g[2], g[3]) + OrdinalToJdn >= ETHIOPIAN_EPOCH}

\* Day numbers from the epoch on, and the years around the scenario and the
\* century years.
JdnInputs ==
    (ETHIOPIAN_EPOCH..(ETHIOPIAN_EPOCH + MaxJdnOffset))
        \cup {toordinal(y, 1, 1) + OrdinalToJdn + k :
                y \in CenturyYears \cup {Sep11_2023[1]}, k \in 0..366}

\* Pairs of valid Ethiopian dates: any date of the first years, and a date
\* at a month or year boundary of the same or the next year.
PairFirst ==
    {e \in {<<y, m, d>> : y \in 1..MaxPairYear, m \in 1..13, d \in 1..30} :
        EthValid(e[1], e[2], e[3])}

PairSecond(d1) ==
    {e \in {<<d1[1] + k, md[1], md[2]>> :
                k \in 0..1,
                md \in {<<1, 1>>, <<1, 2>>, <<12, 30>>, <<13, 1>>, <<13, 5>>, <<13, 6>>}} :
        EthValid(e[1], e[2], e[3])}

GenYears == (1..MaxGenYear) \cup {2018}

----------------------------------------------------------------------------
(* State *)

VARIABLES
    kind,       \* what the input is: "eth", "greg", "jdn", "pair" or "gen"
    arg,        \* the input: a date triple, <<jdn>>, or <<year>>
    arg2,       \* the second date of a pair, else <<>>
    op,         \* the calls made so far, "none" before the first
    res,        \* the value returned by the call on arg
    res2,       \* the value returned by the call on arg2, or by the inverse
                \* call on res
    raised,     \* the call ended in an exception and returned nothing
    corrected,  \* _jdn_to_ethiopian took its `month > 13` branch
    py_date,    \* generate_ethiopian_calendar: the loop's py_date
    yielded,    \* ... how many dates it has yielded
    first,      \* ... the first date yielded
    last        \* ... the last date yielded

vars == <<kind, arg, arg2, op, res, res2, raised, corrected,
          py_date, yielded, first, last>>

genvars == <<py_date, yielded, first, last>>

Init ==
    /\ \/ kind = "eth" /\ arg \in EthInputs /\ arg2 = <<>>
       \/ kind = "greg" /\ arg \in GregInputs /\ arg2 = <<>>
       \/ kind = "jdn" /\ arg \in {<<j>> : j \in JdnInputs} /\ arg2 = <<>>
       \/ kind = "pair" /\ arg \in PairFirst /\ arg2 \in PairSecond(arg)
       \/ kind = "gen" /\ arg \in {<<y>> : y \in GenYears} /\ arg2 = <<>>
    /\ op = "none"
    /\ res = <<>>
    /\ res2 = <<>>
    /\ raised = FALSE
    /\ corrected = FALSE
    /\ py_date = <<>>
    /\ yielded = 0
    /\ first = <<>>
    /\ last = <<>>

----------------------------------------------------------------------------
(* Calls on an Ethiopian date *)

\* to_gregorian(*arg): no check of the input, always returns.
Call_to_gregorian ==
    /\ kind = "eth" /\ op = "none"
    /\ op' = "to_gregorian"
    /\ res' = to_gregorian(arg[1], arg[2], arg[3])
    /\ UNCHANGED <<kind, arg, arg2, res2, raised, corrected, genvars>>

\* to_ethiopian(*to_gregorian(*arg))
Call_to_ethiopian_back ==
    /\ kind = "eth" /\ op = "to_gregorian"
    /\ op' = "to_gregorian;to_ethiopian"
    /\ res2' = to_ethiopian(res[1], res[2], res[3])
    /\ UNCHANGED <<kind, arg, arg2, res, raised, corrected, genvars>>

\* _ethiopian_to_jdn(*arg)
Call_ethiopian_to_jdn ==
    /\ kind = "eth" /\ op = "none"
    /\ op' = "_ethiopian_to_jdn"
    /\ res' = <<_ethiopian_to_jdn(arg[1], arg[2], arg[3])>>
    /\ UNCHANGED <<kind, arg, arg2, res2, raised, corrected, genvars>>

\* EthDate(*arg).to_gregorian() of core/calendar.py
Call_EthDate_to_gregorian ==
    /\ kind = "eth" /\ op = "none"
    /\ op' = "EthDate.to_gregorian"
    /\ IF _eth_to_jdn_raises(arg[1], arg[2], arg[3])
       THEN raised' = TRUE /\ res' = <<>>
       ELSE raised' = FALSE /\ res' = EthDate_to_gregorian(arg[1], arg[2], arg[3])
    /\ UNCHANGED <<kind, arg, arg2, res2, corrected, genvars>>

----------------------------------------------------------------------------
(* Calls on a Gregorian date *)

\* to_ethiopian(*arg)
Call_to_ethiopian ==
    /\ kind = "greg" /\ op = "none"
    /\ op' = "to_ethiopian"
    /\ res' = to_ethiopian(arg[1], arg[2], arg[3])
    /\ UNCHANGED <<kind, arg, arg2, res2, raised, corrected, genvars>>

\* to_gregorian(*to_ethiopian(*arg))
Call_to_gregorian_back ==
    /\ kind = "greg" /\ op = "to_ethiopian"
    /\ op' = "to_ethiopian;to_gregorian"
    /\ res2' = to_gregorian(res[1], res[2], res[3])
    /\ UNCHANGED <<kind, arg, arg2, res, raised, corrected, genvars>>

\* _gregorian_to_jdn(*arg)
Call_gregorian_to_jdn ==
    /\ kind = "greg" /\ op = "none"
    /\ op' = "_gregorian_to_jdn"
    /\ res' = <<_gregorian_to_jdn(arg[1], arg[2], arg[3])>>
    /\ UNCHANGED <<kind, arg, arg2, res2, raised, corrected, genvars>>

\* _jdn_to_gregorian(_gregorian_to_jdn(*arg))
Call_jdn_to_gregorian_back ==
    /\ kind = "greg" /\ op = "_gregorian_to_jdn"
    /\ op' = "_gregorian_to_jdn;_jdn_to_gregorian"
    /\ res2' = _jdn_to_gregorian(res[1])
    /\ UNCHANGED <<kind, arg, arg2, res, raised, corrected, genvars>>

----------------------------------------------------------------------------
(* Calls on a day number *)

\* _jdn_to_ethiopian(arg)
Call_jdn_to_ethiopian ==
    /\ kind = "jdn" /\ op = "none"
    /\ op' = "_jdn_to_ethiopian"
    /\ res' = _jdn_to_ethiopian(arg[1])
    /\ corrected' = (_jdn_to_ethiopian_raw(arg[1])[2] > 13)
    /\ UNCHANGED <<kind, arg, arg2, res2, raised, genvars>>

\* _jdn_to_gregorian(arg)
Call_jdn_to_gregorian ==
    /\ kind = "jdn" /\ op = "none"
    /\ op' = "_jdn_to_gregorian"
    /\ res' = _jdn_to_gregorian(arg[1])
    /\ UNCHANGED <<kind, arg, arg2, res2, raised, corrected, genvars>>

\* _gregorian_to_jdn(*_jdn_to_gregorian(arg))
Call_gregorian_to_jdn_back ==
    /\ kind = "jdn" /\ op = "_jdn_to_gregorian"
    /\ op' = "_jdn_to_gregorian;_gregorian_to_jdn"
    /\ res2' = <<_gregorian_to_jdn(res[1], res[2], res[3])>>
    /\ UNCHANGED <<kind, arg, arg2, res, raised, corrected, genvars>>

----------------------------------------------------------------------------
(* The same call on each date of a pair *)

\* _ethiopian_to_jdn(*arg), _ethiopian_to_jdn(*arg2)
Call_ethiopian_to_jdn_pair ==
    /\ kind = "pair" /\ op = "none"
    /\ op' = "_ethiopian_to_jdn"
    /\ res' = <<_ethiopian_to_jdn(arg[1], arg[2], arg[3])>>
    /\ res2' = <<_ethiopian_to_jdn(arg2[1], arg2[2], arg2[3])>>
    /\ UNCHANGED <<kind, arg, arg2, raised, corrected, genvars>>

\* to_gregorian(*arg), to_gregorian(*arg2)
Call_to_gregorian_pair ==
    /\ kind = "pair" /\ op = "none"
    /\ op' = "to_gregorian"
    /\ res' = to_gregorian(arg[1], arg[2], arg[3])
    /\ res2' = to_gregorian(arg2[1], arg2[2], arg2[3])
    /\ UNCHANGED <<kind, arg, arg2, raised, corrected, genvars>>

----------------------------------------------------------------------------
(* generate_ethiopian_calendar(arg) of core/calendar.py *)

\* Lines 94-96: EthDate(year, 1, 1).to_gregorian() as a PyDate.
GenStart ==
    /\ kind = "gen" /\ op = "none"
    /\ IF _eth_to_jdn_raises(arg[1], 1, 1)
       THEN /\ op' = "generate:raised"
            /\ raised' = TRUE
            /\ py_date' = <<>>
       ELSE /\ op' = "generate:loop"
            /\ raised' = FALSE
            /\ py_date' = EthDate_to_gregorian(arg[1], 1, 1)
    /\ UNCHANGED <<kind, arg, arg2, res, res2, corrected, yielded, first, last>>

\* One pass of the `while True` loop, lines 98-103: break, or yield and step
\* py_date to the next day.
GenStep ==
    /\ kind = "gen" /\ op = "generate:loop"
    /\ LET eth == GregDate_to_ethiopian(py_date[1], py_date[2], py_date[3])
       IN  IF eth[1] # arg[1]
           THEN /\ op' = "generate:done"
                /\ UNCHANGED <<py_date, yielded, first, last>>
           ELSE /\ op' = "generate:loop"
                /\ yielded' = yielded + 1
                /\ first' = (IF yielded = 0 THEN eth ELSE first)
                /\ last' = eth
                /\ py_date' = PyDatePlusOneDay(py_date)
    /\ UNCHANGED <<kind, arg, arg2, res, res2, raised, corrected>>

----------------------------------------------------------------------------

Next ==
    \/ Call_to_gregorian
    \/ Call_to_ethiopian_back
    \/ Call_ethiopian_to_jdn
    \/ Call_EthDate_to_gregorian
    \/ Call_to_ethiopian
    \/ Call_to_gregorian_back
    \/ Call_gregorian_to_jdn
    \/ Call_jdn_to_gregorian_back
    \/ Call_jdn_to_ethiopian
    \/ Call_jdn_to_gregorian
    \/ Call_gregorian_to_jdn_back
    \/ Call_ethiopian_to_jdn_pair
    \/ Call_to_gregorian_pair
    \/ GenStart
    \/ GenStep

Spec == Init /\ [][Next]_vars

----------------------------------------------------------------------------
(* Properties *)

\* C1: round trip.  For every valid Ethiopian date d,
\* to_ethiopian(*to_gregorian(*d)) = d, and for every valid Gregorian date g
\* on or after the epoch, to_gregorian(*to_ethiopian(*g)) = g.
C1_RoundTrip ==
    /\ (kind = "eth" /\ op = "to_gregorian;to_ethiopian"
            /\ EthValid(arg[1], arg[2], arg[3]))
        => res2 = arg
    /\ (kind = "greg" /\ op = "to_ethiopian;to_gregorian")
        => res2 = arg

\* C2: to_gregorian(2016, 1, 1) returns (2023, 9, 11).
C2_Meskerem2016ToGregorian ==
    (kind = "eth" /\ op = "to_gregorian" /\ arg = Meskerem1_2016)
        => res = Sep11_2023

\* C3: to_ethiopian(2023, 9, 11) returns (2016, 1, 1).
C3_Sep2023ToEthiopian ==
    (kind = "greg" /\ op = "to_ethiopian" /\ arg = Sep11_2023)
        => res = Meskerem1_2016

\* C4: boundary rejection.  to_gregorian and _ethiopian_to_jdn end in an
\* error, returning no date, on (year, 14, 1), on (year, 1, 31) and on
\* (year, 13, 6) of a common year; they accept (year, 13, 6) of a leap year.
C4_BoundaryRejection ==
    (kind = "eth" /\ op \in {"to_gregorian", "_ethiopian_to_jdn"})
        => /\ (arg[2] = 14 /\ arg[3] = 1) => (raised /\ res = <<>>)
           /\ (arg[2] = 1 /\ arg[3] = 31) => (raised /\ res = <<>>)
           /\ (arg[2] = 13 /\ arg[3] = 6)
                => IF _is_ethiopian_leap_year(arg[1])
                   THEN ~raised /\ res # <<>>
                   ELSE raised /\ res = <<>>

\* C5: epoch anchor.  (1, 1, 1) is day number 1724221, and to_gregorian
\* returns (8, 8, 27) for it.
C5_EpochAnchor ==
    (kind = "eth" /\ arg = <<1, 1, 1>>)
        => /\ op = "_ethiopian_to_jdn" => res = <<1724221>>
           /\ op = "to_gregorian" => res = <<8, 8, 27>>

\* C6: monotonicity.  If valid Ethiopian date d1 is before d2, then
\* _ethiopian_to_jdn(d1) < _ethiopian_to_jdn(d2) and to_gregorian(d1) is
\* before to_gregorian(d2).
C6_Monotonic ==
    (kind = "pair" /\ DateBefore(arg, arg2))
        => /\ op = "_ethiopian_to_jdn" => res[1] < res2[1]
           /\ op = "to_gregorian" => DateBefore(res, res2)

\* C7: _gregorian_to_jdn and _jdn_to_gregorian are inverse to each other:
\* _gregorian_to_jdn(*_jdn_to_gregorian(jdn)) = jdn for every day number from
\* the epoch on, and _jdn_to_gregorian(_gregorian_to_jdn(y, m, d)) = (y, m, d)
\* for every valid Gregorian date.
C7_GregorianJdnInverse ==
    /\ (kind = "jdn" /\ op = "_jdn_to_gregorian;_gregorian_to_jdn")
        => res2 = arg
    /\ (kind = "greg" /\ op = "_gregorian_to_jdn;_jdn_to_gregorian")
        => res2 = arg

\* The day number of 29 February 2000 has gone to the date and back.
C7_Witness ==
    /\ kind = "jdn"
    /\ op = "_jdn_to_gregorian;_gregorian_to_jdn"
    /\ res = <<2000, 2, 29>>
    /\ res2 = arg

\* C8: year length.  _ethiopian_to_jdn(y + 1, 1, 1) - _ethiopian_to_jdn(y, 1, 1)
\* is 366 when _is_ethiopian_leap_year(y) and 365 otherwise.
C8_YearLength ==
    (kind = "pair" /\ op = "_ethiopian_to_jdn"
        /\ arg[2] = 1 /\ arg[3] = 1 /\ arg2 = <<arg[1] + 1, 1, 1>>)
        => res2[1] - res[1]
             = (IF _is_ethiopian_leap_year(arg[1]) THEN 366 ELSE 365)

\* C9: _jdn_to_ethiopian returns a month in 1..13 and a day in 1..30, in
\* month 13 a day of at most 5, or 6 in a leap year, and never takes its
\* `month > 13` branch.
C9_StructurallyValid ==
    (kind = "jdn" /\ op = "_jdn_to_ethiopian")
        => /\ res[2] \in 1..13
           /\ res[3] \in 1..30
           /\ res[2] = 13
                => res[3] <= (IF _is_ethiopian_leap_year(res[1]) THEN 6 ELSE 5)
           /\ ~corrected

\* A day number has been converted to the 6th day of Pagume.
C9_Witness ==
    /\ kind = "jdn"
    /\ op = "_jdn_to_ethiopian"
    /\ res[2] = 13
    /\ res[3] = 6

\* C10: generate_ethiopian_calendar(year) yields the days of the year in
\* order, starting with (year, 1, 1): the k-th date yielded is the k-th day
\* of the year, and 365 or 366 dates have been yielded when the loop breaks.
C10_GeneratesWholeYear ==
    kind = "gen"
        => /\ yielded > 0
                => /\ first = <<arg[1], 1, 1>>
                   /\ last = <<arg[1], (yielded - 1) \div 30 + 1,
                               ((yielded - 1) % 30) + 1>>
           /\ op = "generate:done" => yielded \in {365, 366}

====
